---- MODULE Spec2Model ----
(***************************************************************************)
(* Model of folium.Map (src/folium/folium.py): the template-variable       *)
(* context a Map accumulates, its per-kind marker counters, its map-type   *)
(* tag and the build/export step.                                          *)
(*                                                                         *)
(* The Map object is the variable `self`: a function from attribute name   *)
(* to value whose DOMAIN is the set of attributes assigned so far, exactly *)
(* like the instance dictionary of the Python object.  Python dictionaries *)
(* (template_vars, mark_cnt, tile_types) are functions with a growing      *)
(* DOMAIN as well.  A Python 2 `str` is a sequence of byte values, so that *)
(* lower(), strip(), split(), join and UTF-8 decoding are computed and not *)
(* assumed.                                                                *)
(***************************************************************************)
EXTENDS Integers, Sequences, FiniteSets, TLC

VARIABLES
    pc,            \* "new" before Map(...), "live" after it returned, "raised" when __init__ raised
    self,          \* the instance dictionary of the Map object
    exc,           \* the exception the last call raised, "none" when it returned
    fs,            \* the file system seen by create_map: path -> text written
    ctor_args,     \* history: the arguments Map(...) was called with
    simple_calls,  \* history: the arguments and the outcome of every simple_marker
                   \* call, in call order
    geo_called,    \* history: geo_json has been called on this instance
    last_op,       \* history: the call made last, its arguments, and whether the
                   \* call before it was the same call with the same arguments
    ncalls         \* the number of method calls the caller has made on the Map

vars == <<pc, self, exc, fs, ctor_args, simple_calls, geo_called, last_op, ncalls>>

----------------------------------------------------------------------------
(* Bounds of the model *)

\* method calls the caller makes on a constructed Map (caps mark_cnt as well)
MaxCalls == 4

----------------------------------------------------------------------------
(* Python values *)

None == [type |-> "NoneType"]
Str(s) == [type |-> "str", v |-> s]
Unicode(s) == [type |-> "unicode", v |-> s]
List(s) == [type |-> "list", v |-> s]

\* a truth test that only asks for a value other than None
Truthy_not_none(x) == x.type # "NoneType"

\* Python truth value of None, a str, a unicode or a list
Truthy(x) == x.type # "NoneType" /\ Len(x.v) > 0

\* a pop that leaves the key in place
Pop_keep(d, k) == d

\* an empty dict, d[k] = v, and d.pop(k)
EmptyDict == [k \in {} |-> 0]
Put(d, k, v) == [x \in DOMAIN d \cup {k} |-> IF x = k THEN v ELSE d[x]]
Pop(d, k) == [x \in DOMAIN d \ {k} |-> d[x]]

\* the outcome of a call: a value, or an exception
Return(v) == [exc |-> "none", value |-> v]
Raise(e) == [exc |-> e]

----------------------------------------------------------------------------
(* Python 2 byte strings *)

Whitespace == {9, 10, 11, 12, 13, 32}

\* str.lower(): ASCII upper case letters are moved to lower case
Lower(s) == [i \in 1..Len(s) |-> IF s[i] \in 65..90 THEN s[i] + 32 ELSE s[i]]

RECURSIVE LStrip(_)
LStrip(s) == IF s # <<>> /\ Head(s) \in Whitespace THEN LStrip(Tail(s)) ELSE s

RECURSIVE RStrip(_)
RStrip(s) ==
    IF s # <<>> /\ s[Len(s)] \in Whitespace THEN RStrip(SubSeq(s, 1, Len(s) - 1)) ELSE s

\* str.strip()
Strip(s) == RStrip(LStrip(s))

\* the first whitespace-free word of s and what follows it
RECURSIVE Word(_)
Word(s) ==
    IF s = <<>> \/ Head(s) \in Whitespace THEN <<>> ELSE <<Head(s)>> \o Word(Tail(s))

\* str.split(): the words between runs of whitespace
RECURSIVE Split(_)
Split(s) ==
    LET t == LStrip(s)
    IN IF t = <<>> THEN <<>>
       ELSE <<Word(t)>> \o Split(SubSeq(t, Len(Word(t)) + 1, Len(t)))

\* ''.join(words)
RECURSIVE Join(_)
Join(words) == IF words = <<>> THEN <<>> ELSE Head(words) \o Join(Tail(words))

\* s.decode('utf8') on a byte sequence: [ok |-> TRUE, cps |-> the code points],
\* or ok = FALSE on a byte sequence that is not UTF-8
Cont(b) == b \in 128..191
RECURSIVE Utf8(_)
Utf8(s) ==
    IF s = <<>> THEN [ok |-> TRUE, cps |-> <<>>]
    ELSE LET b == Head(s)
             bad == [ok |-> FALSE, cps |-> <<>>]
             rest(n, cp) ==
                 LET r == Utf8(SubSeq(s, n + 1, Len(s)))
                 IN IF r.ok THEN [ok |-> TRUE, cps |-> <<cp>> \o r.cps] ELSE bad
         IN IF b < 128 THEN rest(1, b)
            ELSE IF b \in 194..223 /\ Len(s) >= 2 /\ Cont(s[2])
                 THEN rest(2, (b - 192) * 64 + (s[2] - 128))
            ELSE IF b \in 224..239 /\ Len(s) >= 3 /\ Cont(s[2]) /\ Cont(s[3])
                      /\ (b # 224 \/ s[2] >= 160)
                 THEN rest(3, (b - 224) * 4096 + (s[2] - 128) * 64 + (s[3] - 128))
            ELSE IF b \in 240..244 /\ Len(s) >= 4 /\ Cont(s[2]) /\ Cont(s[3]) /\ Cont(s[4])
                      /\ (b # 240 \/ s[2] >= 144) /\ (b # 244 \/ s[2] <= 143)
                 THEN rest(4, (b - 240) * 262144 + (s[2] - 128) * 4096
                                + (s[3] - 128) * 64 + (s[4] - 128))
            ELSE bad

\* unicode(x, 'utf8') of Python 2: decodes a str; anything else that is not
\* a buffer (None, a unicode object) is a TypeError
unicode(x) ==
    IF x.type # "str" THEN Raise("TypeError")
    ELSE IF ~Utf8(x.v).ok THEN Raise("UnicodeDecodeError")
    ELSE Return(Unicode(Utf8(x.v).cps))

----------------------------------------------------------------------------
(* String literals of the source and of the inputs *)

openstreetmap == <<111, 112, 101, 110, 115, 116, 114, 101, 101, 116, 109, 97, 112>>
mapbox == <<109, 97, 112, 98, 111, 120>>
cloudmade == <<99, 108, 111, 117, 100, 109, 97, 100, 101>>
mapboxdark == <<109, 97, 112, 98, 111, 120, 100, 97, 114, 107>>
Custom == <<67, 117, 115, 116, 111, 109>>
\* '"Latitude: " + lat + "<br>Longitude: " + lng '
latlng ==
    <<34, 76, 97, 116, 105, 116, 117, 100, 101, 58, 32, 34, 32, 43, 32, 108, 97,
      116, 32, 43, 32, 34, 60, 98, 114, 62, 76, 111, 110, 103, 105, 116, 117, 100,
      101, 58, 32, 34, 32, 43, 32, 108, 110, 103, 32>>

----------------------------------------------------------------------------
(* jinja2: templates are looked up by name and rendered against a context. *)
(* The template bodies are assets outside the program; a rendered text is  *)
(* determined by the template and the context it was rendered against.     *)

get_template(name) == [template |-> name]
render(templ, context) == [template |-> templ.template, context |-> context]

\* 'style="width: {0}px; height: {1}px"'.format(width, height)
format_size(width, height) ==
    [format |-> "style=\"width: {0}px; height: {1}px\"", args |-> <<width, height>>]

----------------------------------------------------------------------------
(* Map.__init__ *)

default_tiles == <<openstreetmap, mapbox, cloudmade, mapboxdark>>

\* the table built by the loop over default_tiles
builtin_tile_types ==
    [tile \in {default_tiles[i] : i \in 1..Len(default_tiles)} |->
        [templ |-> get_template(<<tile, "_tiles.txt">>),
         attr |-> get_template(<<tile, "_att.txt">>)]]

\* a selector that is stripped of whitespace but keeps its case
normalize_tiles_cased(tiles) == Join(Split(Strip(tiles.v)))

\* ''.join(tiles.lower().strip().split())
normalize_tiles(tiles) == Join(Split(Strip(Lower(tiles.v))))

\* The instance dictionary and the exception __init__ ends with: the
\* statements of the constructor in order, each raise leaving what the
\* statements before it assigned.
init_result(location, width, height, fullscreen, tiles, API_key, max_zoom, zoom_start, attr) ==
    LET s1 == Put(Put(EmptyDict, "map_type", "base"), "mark_cnt", EmptyDict)
        s2 == Put(s1, "location", location)
        s3 == Put(Put(s2, "map_size", [width |-> width, height |-> height]),
                  "_size", format_size(width, height))
        s4 == Put(s3, "env", "Environment")
        tv0 == [lat |-> location.v[1], lon |-> location.v[2],
                size |-> s4._size, max_zoom |-> max_zoom, zoom_level |-> zoom_start]
        s5 == Put(s4, "template_vars", tv0)
        s6 == IF fullscreen
              THEN Put(Put(s5, "map_size", Str(<<102, 117, 108, 108, 115, 99, 114, 101, 101, 110>>)),
                       "template_vars", Pop(s5.template_vars, "size"))
              ELSE s5
        s7 == Put(s6, "tiles", normalize_tiles(tiles))
        s8 == Put(Put(s7, "default_tiles", default_tiles), "tile_types", builtin_tile_types)
        hit == Put(s8, "template_vars",
                   Put(Put(s8.template_vars, "Tiles",
                           render(s8.tile_types[s8.tiles].templ, [API_key |-> API_key])),
                       "attr", render(s8.tile_types[s8.tiles].attr, EmptyDict)))
        miss1 == Put(s8, "template_vars", Put(s8.template_vars, "Tiles", tiles))
        miss2 == Put(miss1, "template_vars",
                     Put(miss1.template_vars, "attr", unicode(attr).value))
        miss3 == Put(miss2, "tile_types",
                     Put(miss2.tile_types, Custom, [template |-> tiles, attr |-> attr]))
    IN IF ~Truthy(location) THEN [self |-> s1, exc |-> "ValueError"]
       ELSE IF Len(location.v) < 2 THEN [self |-> s4, exc |-> "IndexError"]
       ELSE IF s7.tiles = cloudmade /\ ~Truthy(API_key)
            THEN [self |-> s7, exc |-> "ValueError"]
       ELSE IF s8.tiles \in DOMAIN s8.tile_types THEN [self |-> hit, exc |-> "none"]
       ELSE IF unicode(attr).exc # "none" THEN [self |-> miss1, exc |-> unicode(attr).exc]
       ELSE [self |-> miss3, exc |-> "none"]

----------------------------------------------------------------------------
(* The inputs the calls are made with *)

\* [45, -122], [45], [] and None
Locations == {List(<<45, -122>>), List(<<45>>), List(<<>>), None}
\* 'OpenStreetMap', ' Cloud\tMade ', 'T/{Z}' (a tile URL no provider matches)
OpenStreetMapSel == Str(<<79, 112, 101, 110, 83, 116, 114, 101, 101, 116, 77, 97, 112>>)
CloudmadeSel == Str(<<32, 67, 108, 111, 117, 100, 9, 77, 97, 100, 101, 32>>)
TileUrl == Str(<<84, 47, 123, 90, 125>>)
TileSelectors == {OpenStreetMapSel, CloudmadeSel, TileUrl}
\* None, '' and 'k'
ApiKeys == {None, Str(<<>>), Str(<<107>>)}
\* None, 'Me\xc3\xa9' (UTF-8), '\xe9' (Latin-1) and u'Me'
Attributions == {None, Str(<<77, 101, 195, 169>>), Str(<<233>>), Unicode(<<77, 101>>)}
\* the (location, popup_txt) of a marker: (None, 'Hi'), ([45, -122], 'Hi')
\* and ([45, -122], 'PDX')
MarkerInputs == {<<None, Str(<<72, 105>>)>>, <<List(<<45, -122>>), Str(<<72, 105>>)>>,
                 <<List(<<45, -122>>), Str(<<80, 68, 88>>)>>}
\* None, '' and 'Hi'
ClickTexts == {None, Str(<<>>), Str(<<72, 105>>)}
\* 'a.json' and 'b.json'
GeoData == {Str(<<97, 46, 106, 115, 111, 110>>), Str(<<98, 46, 106, 115, 111, 110>>)}
\* 'map.html', and 'out/map.html' in a directory that does not exist
Paths == {Str(<<109, 97, 112, 46, 104, 116, 109, 108>>),
          Str(<<111, 117, 116, 47, 109, 97, 112, 46, 104, 116, 109, 108>>)}

----------------------------------------------------------------------------
(* The state before Map(...) is called *)

Init ==
    /\ pc = "new"
    /\ self = EmptyDict
    /\ exc = "none"
    /\ fs = EmptyDict
    /\ ctor_args = EmptyDict
    /\ simple_calls = <<>>
    /\ geo_called = FALSE
    /\ last_op = [op |-> "none", args |-> <<>>, repeated |-> FALSE]
    /\ ncalls = 0

__init__(location, width, height, fullscreen, tiles, API_key, max_zoom, zoom_start, attr) ==
    LET r == init_result(location, width, height, fullscreen, tiles, API_key,
                         max_zoom, zoom_start, attr)
    IN /\ pc = "new"
       /\ self' = r.self
       /\ exc' = r.exc
       /\ pc' = IF r.exc = "none" THEN "live" ELSE "raised"
       /\ ctor_args' = [location |-> location, width |-> width, height |-> height,
                        fullscreen |-> fullscreen, tiles |-> tiles,
                        API_key |-> API_key, max_zoom |-> max_zoom,
                        zoom_start |-> zoom_start, attr |-> attr]
       /\ last_op' = [op |-> "__init__", args |-> <<>>, repeated |-> FALSE]
       /\ UNCHANGED <<fs, simple_calls, geo_called, ncalls>>

----------------------------------------------------------------------------
(* The marker factory (module markers, imported as mk) *)

\* mk.simple_marker(location, popup_txt, popup, count): a Simple directive
\* whose name embeds the kind and the sequence index; an absent location is
\* an error
mk_simple_marker(location, popup_txt, popup, count) ==
    IF location.type = "NoneType" THEN Raise("TypeError")
    ELSE Return([kind |-> "simple", index |-> count, location |-> location,
                 popup_txt |-> popup_txt, popup |-> popup])

\* mk.circle_marker(location, radius, line_color, fill_color, fill_opacity,
\* popup_txt, popup, count): a Circle directive
mk_circle_marker(location, radius, line_color, fill_color, fill_opacity, popup_txt, popup, count) ==
    IF location.type = "NoneType" THEN Raise("TypeError")
    ELSE Return([kind |-> "circle", index |-> count, location |-> location,
                 radius |-> radius, line_color |-> line_color,
                 fill_color |-> fill_color, fill_opacity |-> fill_opacity,
                 popup_txt |-> popup_txt, popup |-> popup])

----------------------------------------------------------------------------
(* The mutators *)

\* the history entry of a method call
call(op, args) ==
    [op |-> op, args |-> args,
     repeated |-> IF last_op.op = op THEN last_op.args = args ELSE FALSE]

\* the caller makes one more method call, within the bound of the model
called == ncalls < MaxCalls /\ ncalls' = ncalls + 1

\* d.get(k, default)
Get(d, k, default) == IF k \in DOMAIN d THEN d[k] ELSE default

\* a counter that is set to 1 on every call
bump_stuck(s, kind) == Put(s, "mark_cnt", Put(s.mark_cnt, kind, 1))

\* self.mark_cnt[kind] = self.mark_cnt.get(kind, 0) + 1
bump(s, kind) == Put(s, "mark_cnt", Put(s.mark_cnt, kind, Get(s.mark_cnt, kind, 0) + 1))

\* self.template_vars.setdefault('markers', []).append(marker)
append_marker(s, marker) ==
    Put(s, "template_vars",
        Put(s.template_vars, "markers",
            Append(Get(s.template_vars, "markers", <<>>), marker)))

simple_marker(location, popup_txt, popup) ==
    LET s1 == bump(self, "simple")
        marker == mk_simple_marker(location, popup_txt, popup, s1.mark_cnt.simple)
    IN /\ pc = "live"
       /\ called
       /\ exc' = marker.exc
       /\ self' = IF marker.exc = "none" THEN append_marker(s1, marker.value) ELSE s1
       /\ simple_calls' = Append(simple_calls,
                                 [location |-> location, popup_txt |-> popup_txt,
                                  popup |-> popup, exc |-> marker.exc])
       /\ last_op' = call("simple_marker", <<location, popup_txt, popup>>)
       /\ UNCHANGED <<pc, fs, ctor_args, geo_called>>

circle_marker(location, radius, popup_txt, popup, line_color, fill_color, fill_opacity) ==
    LET s1 == bump(self, "circle")
        marker == mk_circle_marker(location, radius, line_color, fill_color,
                                   fill_opacity, popup_txt, popup, s1.mark_cnt.circle)
    IN /\ pc = "live"
       /\ called
       /\ exc' = marker.exc
       /\ self' = IF marker.exc = "none" THEN append_marker(s1, marker.value) ELSE s1
       /\ last_op' = call("circle_marker", <<location, radius, popup_txt, popup, line_color,
                                 fill_color, fill_opacity>>)
       /\ UNCHANGED <<pc, fs, ctor_args, simple_calls, geo_called>>

\* a popover that is stored under the attribution slot
lat_lng_popover_attr ==
    /\ pc = "live"
    /\ called
    /\ self' = Put(self, "template_vars",
                   Put(self.template_vars, "attr",
                       render(get_template("lat_lng_popover.txt"), EmptyDict)))
    /\ exc' = "none"
    /\ last_op' = call("lat_lng_popover", <<>>)
    /\ UNCHANGED <<pc, fs, ctor_args, simple_calls, geo_called>>

lat_lng_popover ==
    LET latlng_temp == get_template("lat_lng_popover.txt")
    IN /\ pc = "live"
       /\ called
       /\ self' = Put(self, "template_vars",
                      Put(self.template_vars, "lat_lng_pop", render(latlng_temp, EmptyDict)))
       /\ exc' = "none"
       /\ last_op' = call("lat_lng_popover", <<>>)
       /\ UNCHANGED <<pc, fs, ctor_args, simple_calls, geo_called>>

\* a popup text that is not quoted
click_popup_bare(popup_txt) == IF Truthy(popup_txt) THEN popup_txt ELSE Str(latlng)

\* the popup expression: ''.join(['"', popup_txt, '"']) or latlng
click_popup(popup_txt) ==
    IF Truthy(popup_txt) THEN Str(<<34>> \o popup_txt.v \o <<34>>) ELSE Str(latlng)

click_for_marker(popup_txt) ==
    LET click_temp == get_template("click_for_marker.txt")
        popup == click_popup(popup_txt)
        click_str == render(click_temp, [popup |-> popup])
    IN /\ pc = "live"
       /\ called
       /\ self' = Put(self, "template_vars", Put(self.template_vars, "click_pop", click_str))
       /\ exc' = "none"
       /\ last_op' = call("click_for_marker", <<popup_txt>>)
       /\ UNCHANGED <<pc, fs, ctor_args, simple_calls, geo_called>>

\* a geo_json that leaves the tag alone, and one that misspells it
set_geojson_skip(s) == s
set_geojson_typo(s) == Put(s, "map_type", "geo_json")

\* self.map_type = 'geojson'
set_geojson(s) == Put(s, "map_type", "geojson")

geo_json(data, line_color, line_weight, line_opacity, fill_color, fill_opacity) ==
    LET s1 == set_geojson(self)
        style_temp == get_template("geojson_style.txt")
        style == render(style_temp,
                        [line_color |-> line_color, line_weight |-> line_weight,
                         line_opacity |-> line_opacity, fill_color |-> fill_color,
                         fill_opacity |-> fill_opacity])
    IN /\ pc = "live"
       /\ called
       /\ self' = Put(s1, "template_vars",
                      Put(Put(s1.template_vars, "geo_json", data), "geo_style", style))
       /\ exc' = "none"
       /\ geo_called' = TRUE
       /\ last_op' = call("geo_json", <<data, line_color, line_weight, line_opacity,
                                 fill_color, fill_opacity>>)
       /\ UNCHANGED <<pc, fs, ctor_args, simple_calls>>

----------------------------------------------------------------------------
(* Build and export *)

map_types == [base |-> "fol_template.html", geojson |-> "geojson_template.html"]

\* a build that consumes the marker list it rendered
build_result_consuming(s) ==
    [self |-> Put(Put(s, "HTML", render(get_template(map_types[s.map_type]), s.template_vars)),
                  "template_vars", Pop(s.template_vars, "markers")),
     exc |-> "none"]

\* the instance dictionary and the exception _build_map ends with
build_result(s) ==
    IF s.map_type \notin DOMAIN map_types THEN [self |-> s, exc |-> "KeyError"]
    ELSE LET html_templ == get_template(map_types[s.map_type])
         IN [self |-> Put(s, "HTML", render(html_templ, s.template_vars)),
             exc |-> "none"]

_build_map ==
    /\ pc = "live"
    /\ called
    /\ self' = build_result(self).self
    /\ exc' = build_result(self).exc
    /\ last_op' = call("_build_map", <<>>)
    /\ UNCHANGED <<pc, fs, ctor_args, simple_calls, geo_called>>

\* codecs.open(path, 'w', 'utf-8') succeeds for a file of the working
\* directory; the file system holds no other directory
can_open(path) == \A i \in 1..Len(path.v) : path.v[i] # 47

create_map(path) ==
    LET b == build_result(self)
    IN /\ pc = "live"
       /\ called
       /\ self' = b.self
       /\ IF b.exc # "none" THEN exc' = b.exc /\ fs' = fs
          ELSE IF ~can_open(path) THEN exc' = "IOError" /\ fs' = fs
          ELSE exc' = "none" /\ fs' = Put(fs, path.v, b.self.HTML)
       /\ last_op' = call("create_map", <<path>>)
       /\ UNCHANGED <<pc, ctor_args, simple_calls, geo_called>>

----------------------------------------------------------------------------

\* Map(...) over every combination of the constructor's inputs
NextInit ==
    \E location \in Locations, width \in {960, 750}, fullscreen \in BOOLEAN,
       tiles \in TileSelectors, API_key \in ApiKeys, attr \in Attributions :
       __init__(location, width, 500, fullscreen, tiles, API_key, 18, 10, attr)

SpecInit == Init /\ [][NextInit]_vars

\* Map(...) with or without a location, sized or fullscreen, on a built-in
\* or a custom tile provider, followed by any calls of its methods
Next ==
    \/ \E location \in {List(<<45, -122>>), None}, fullscreen \in BOOLEAN,
          tiles \in {OpenStreetMapSel, TileUrl} :
          __init__(location, 960, 500, fullscreen, tiles, None, 18, 10,
                   Str(<<77, 101, 195, 169>>))
    \/ \E m \in MarkerInputs : simple_marker(m[1], m[2], TRUE)
    \/ \E m \in MarkerInputs :
          circle_marker(m[1], 500, m[2], TRUE,
                        Str(<<98, 108, 97, 99, 107>>), Str(<<98, 108, 97, 99, 107>>), 6)
    \/ lat_lng_popover
    \/ \E popup_txt \in ClickTexts : click_for_marker(popup_txt)
    \/ \E data \in GeoData :
          geo_json(data, Str(<<98, 108, 97, 99, 107>>), 1, 1, Str(<<98, 108, 117, 101>>), 6)
    \/ _build_map
    \/ \E path \in Paths : create_map(path)

Spec == Init /\ [][Next]_vars

----------------------------------------------------------------------------
(* Properties *)

template_vars == self.template_vars
ValidCenter == List(<<45, -122>>)
IsSimple(m) == m.kind = "simple"
\* the simple-marker fragments of the 'markers' list, in list order
SimpleFragments == SelectSeq(Get(template_vars, "markers", <<>>), IsSimple)
\* the directive of the k-th simple_marker call, carrying index k
SimpleDirective(k) ==
    [kind |-> "simple", index |-> k, location |-> simple_calls[k].location,
     popup_txt |-> simple_calls[k].popup_txt, popup |-> simple_calls[k].popup,
     exc |-> simple_calls[k].exc]
Returned(d) == d.exc = "none"
Fragment(d) ==
    [kind |-> d.kind, index |-> d.index, location |-> d.location,
     popup_txt |-> d.popup_txt, popup |-> d.popup]
FragmentsOf(ds) == [i \in 1..Len(ds) |-> Fragment(ds[i])]
AllSimpleCalls == [k \in 1..Len(simple_calls) |-> SimpleDirective(k)]

\* C1 as stated: the simple-marker fragments of 'markers' are exactly one
\* per simple_marker call, in call order, the k-th call carrying index k.
C1_OnePerCall ==
    pc = "live" => SimpleFragments = FragmentsOf(AllSimpleCalls)

\* C1 (amended): the simple-marker fragments of 'markers' are exactly one
\* per simple_marker call that returned, in call order; the k-th call,
\* raised or returned, is given index k, the counter equals the number of
\* calls, and no two fragments carry the same index.
C1_OnePerReturnedCall ==
    pc = "live" =>
        /\ SimpleFragments = FragmentsOf(SelectSeq(AllSimpleCalls, Returned))
        /\ Get(self.mark_cnt, "simple", 0) = Len(simple_calls)
        /\ \A i, j \in 1..Len(SimpleFragments) :
              i < j => SimpleFragments[i].index < SimpleFragments[j].index

\* three simple_marker calls, the second raised, interleaved with a circle
C1_Witness ==
    /\ pc = "live"
    /\ Len(simple_calls) = 3
    /\ simple_calls[2].exc # "none"
    /\ Len(SimpleFragments) = 2
    /\ SimpleFragments[2].index = 3
    /\ \E i \in 1..Len(template_vars.markers) : template_vars.markers[i].kind = "circle"

BuildOps == {"_build_map", "create_map"}
\* the step is a call of one of ops
Calls(ops) == ncalls' = ncalls + 1 /\ last_op'.op \in ops

\* C2: once geo_json was called the tag is 'geojson' after every step, a
\* build then renders the geojson page template, and a build on an instance
\* geo_json was never called on renders the base page template.
C2_GeoJsonOneWay ==
    [][/\ geo_called => geo_called'
       /\ geo_called' => self'.map_type = "geojson"
       /\ Calls(BuildOps) =>
             self'.HTML.template = IF geo_called THEN "geojson_template.html"
                                   ELSE "fol_template.html"]_vars

\* a build after geo_json and a later marker
C2_Witness ==
    /\ geo_called
    /\ last_op.op = "_build_map"
    /\ self.HTML.template = "geojson_template.html"
    /\ "markers" \in DOMAIN self.HTML.context

\* C3: a build leaves template_vars, the tag and the counters as they were,
\* and a build right after a build leaves the output as it was.
C3_BuildReadOnly ==
    [][(pc = "live" /\ Calls(BuildOps)) =>
          /\ self'.template_vars = self.template_vars
          /\ self'.map_type = self.map_type
          /\ self'.mark_cnt = self.mark_cnt
          /\ last_op.op \in BuildOps => self'.HTML = self.HTML]_vars

\* _build_map twice in a row on a map with markers
C3_Witness ==
    /\ last_op.op = "_build_map"
    /\ last_op.repeated
    /\ "markers" \in DOMAIN self.HTML.context

\* C4: Map(...) with the location None or empty raises ValueError, whatever
\* the other arguments, before template_vars, tile_types or tiles exist.
C4_NoLocationFails ==
    (pc # "new" /\ ctor_args.location \in {None, List(<<>>)}) =>
        /\ pc = "raised"
        /\ exc = "ValueError"
        /\ DOMAIN self \cap {"template_vars", "tile_types", "tiles"} = {}

\* no location, and the Cloudmade selector without a key
C4_Witness ==
    /\ pc = "raised"
    /\ ctor_args.location = List(<<>>)
    /\ ctor_args.tiles = CloudmadeSel
    /\ ctor_args.API_key = None

\* C5: with a valid center and the selector ' Cloud\tMade ', Map(...)
\* raises ValueError when API_key is None or '', and otherwise returns with
\* the built-in cloudmade provider selected and rendered with the key.
C5_CloudmadeNeedsKey ==
    (pc # "new" /\ ctor_args.location = ValidCenter /\ ctor_args.tiles = CloudmadeSel) =>
        IF ctor_args.API_key \in {None, Str(<<>>)}
        THEN pc = "raised" /\ exc = "ValueError"
        ELSE /\ pc = "live"
             /\ self.tiles = cloudmade
             /\ template_vars.Tiles =
                   [template |-> <<cloudmade, "_tiles.txt">>,
                    context |-> [API_key |-> ctor_args.API_key]]
             /\ template_vars.attr.template = <<cloudmade, "_att.txt">>
             /\ Custom \notin DOMAIN self.tile_types

\* Cloudmade with a key
C5_Witness ==
    /\ pc = "live"
    /\ ctor_args.tiles = CloudmadeSel
    /\ ctor_args.API_key = Str(<<107>>)
    /\ self.tiles = cloudmade

\* C6: on a constructed Map, the 'size' slot is in template_vars exactly
\* when fullscreen was false, and with fullscreen the map size is 'fullscreen'.
C6_SizeOrFullscreen ==
    pc = "live" =>
        /\ "size" \in DOMAIN template_vars <=> ~ctor_args.fullscreen
        /\ ctor_args.fullscreen =>
              self.map_size = Str(<<102, 117, 108, 108, 115, 99, 114, 101, 101, 110>>)
        /\ ~ctor_args.fullscreen => self.map_size = [width |-> 960, height |-> 500]

\* a fullscreen map after mutators and a build
C6_Witness ==
    /\ pc = "live"
    /\ ctor_args.fullscreen
    /\ "size" \notin DOMAIN template_vars
    /\ geo_called
    /\ "markers" \in DOMAIN template_vars
    /\ "HTML" \in DOMAIN self

CtorSlots == {"lat", "lon", "size", "max_zoom", "zoom_level", "Tiles", "attr"}
CtorAttrs == {"location", "map_size", "_size", "tiles", "default_tiles", "tile_types"}

\* C7: a step of a constructed Map leaves every slot written at
\* construction, and the tile provider, as they were.
C7_CtorSlotsFrozen ==
    [][pc = "live" =>
          /\ \A k \in CtorSlots :
                /\ k \in DOMAIN self'.template_vars <=> k \in DOMAIN self.template_vars
                /\ k \in DOMAIN self.template_vars =>
                      self'.template_vars[k] = self.template_vars[k]
          /\ \A a \in CtorAttrs : self'[a] = self[a]]_vars

\* every mutator has written its slot
C7_Witness ==
    /\ pc = "live"
    /\ {"markers", "lat_lng_pop", "click_pop", "geo_json"} \subseteq DOMAIN template_vars
    /\ template_vars.Tiles = TileUrl

\* C8 as stated: with a valid center and a selector no provider matches,
\* Map(...) raises without an attribution and returns with one, the
\* selector stored as 'Tiles', the attribution as 'attr' and a 'Custom'
\* provider registered; 'Custom' is not registered otherwise.
C8_CustomNeedsAttribution ==
    (pc # "new" /\ ctor_args.location = ValidCenter) =>
        /\ ctor_args.tiles = TileUrl =>
              IF ctor_args.attr = None THEN pc = "raised"
              ELSE /\ pc = "live"
                   /\ template_vars.Tiles = ctor_args.tiles
                   /\ template_vars.attr.v \in {ctor_args.attr.v, Utf8(ctor_args.attr.v).cps}
                   /\ Custom \in DOMAIN self.tile_types
        /\ (ctor_args.tiles # TileUrl /\ pc = "live") =>
              Custom \notin DOMAIN self.tile_types

\* C9: the tag is 'base' or 'geojson' and no build raised KeyError.
C9_TagInTable ==
    pc # "new" => self.map_type \in {"base", "geojson"} /\ exc # "KeyError"

\* a build of each kind of page
C9_Witness ==
    /\ geo_called
    /\ last_op.op = "create_map"
    /\ exc = "none"
    /\ \E p \in DOMAIN fs : fs[p].template = "geojson_template.html"

\* what a step of lat_lng_popover or click_for_marker may change: the one
\* slot, and nothing at all when the same call was made just before
OnlySlot(slot) ==
    /\ DOMAIN self' = DOMAIN self
    /\ \A a \in DOMAIN self \ {"template_vars"} : self'[a] = self[a]
    /\ DOMAIN self'.template_vars = DOMAIN self.template_vars \cup {slot}
    /\ \A k \in DOMAIN self.template_vars \ {slot} :
          self'.template_vars[k] = self.template_vars[k]
    /\ last_op'.repeated => self' = self
Quoted(t) == Str(<<34>> \o t.v \o <<34>>)

\* C10 as stated: click_for_marker stores the text in double quotes when
\* popup_txt is given and the latitude/longitude expression when it is not.
C10_QuotedWhenGiven ==
    [][/\ Calls({"lat_lng_popover"}) => OnlySlot("lat_lng_pop")
       /\ Calls({"click_for_marker"}) =>
             /\ OnlySlot("click_pop")
             /\ self'.template_vars.click_pop.context.popup =
                   IF last_op'.args[1] # None THEN Quoted(last_op'.args[1])
                   ELSE Str(latlng)]_vars

\* C10 (amended): lat_lng_popover and click_for_marker write their own slot
\* only, and nothing when repeated; click_for_marker stores the text in
\* double quotes when popup_txt is a non-empty string, and the
\* latitude/longitude expression when it is None or ''.
C10_QuotedWhenNonEmpty ==
    [][/\ Calls({"lat_lng_popover"}) => OnlySlot("lat_lng_pop")
       /\ Calls({"click_for_marker"}) =>
             /\ OnlySlot("click_pop")
             /\ self'.template_vars.click_pop.context.popup =
                   IF last_op'.args[1].type = "str" /\ Len(last_op'.args[1].v) > 0
                   THEN Quoted(last_op'.args[1])
                   ELSE Str(latlng)]_vars

\* click_for_marker('Hi') twice in a row, on a map with a popover and markers
C10_Witness ==
    /\ last_op.op = "click_for_marker"
    /\ last_op.repeated
    /\ template_vars.click_pop.context.popup = Str(<<34, 72, 105, 34>>)
    /\ "lat_lng_pop" \in DOMAIN template_vars
    /\ "markers" \in DOMAIN template_vars

====
